---- MODULE Spec2Model ----
(***************************************************************************)
(* Model of the Mentorium pairing algorithm (src/lib/excel.ts):            *)
(*   - assignStudentsBidirectional: filter, stable descending sort and     *)
(*     serpentine (forward/backward) distribution over mentor buckets;     *)
(*   - getMentorStats: per-mentor count / average / highest / lowest;      *)
(*   - parseStudentsFromFile: header and row validation of sheet rows.     *)
(*                                                                         *)
(* JavaScript numbers are records [k, n]: k is "fin", "nan", "pinf" or     *)
(* "ninf"; for a finite number n is the value in hundredths (Scale), so    *)
(* 90.5 is [k |-> "fin", n |-> 9050] and the integer 2 is n = 200.         *)
(***************************************************************************)
EXTENDS Integers, Sequences, FiniteSets, TLC

VARIABLES
    students,     \* argument of assignStudentsBidirectional: the roster
    numMentors,   \* argument of assignStudentsBidirectional: a JS number
    pc,           \* "start" | "returned" | "threw" | "stats"
    sorted,       \* the local `sorted` of assignStudentsBidirectional
    result,       \* the returned AssignmentResult (NoResult before / on throw)
    stats,        \* the value returned by getMentorStats
    workbook,     \* parseStudentsFromFile: what xlsx.read / sheet_to_json give
    parsed,       \* parseStudentsFromFile: the returned ParseResult
    heap,         \* the arrays allocated so far; an array reference is an index
    calls,        \* what each call of assignStudentsBidirectional returned
    mode,         \* page state: "demo" | "upload"
    step,         \* page state: "setup" | "preview" | "results"
    uploadErrors, \* page state: the errors of the last upload
    selectedFileName,  \* page state: the name of the parsed file, or NoFile
    pending       \* the files whose handleFileChange awaits its parse

heapVars == <<heap, calls>>

pageVars == <<mode, step, uploadErrors, selectedFileName, pending>>

vars == <<students, numMentors, pc, sorted, result, stats, workbook, parsed,
          heapVars, pageVars>>

----------------------------------------------------------------------------
(* Bounds of the model *)

MaxStudents == 5
MaxMentors == 3
MaxRows == 2
MaxCalls == 2

(* Number of decimals kept by toFixed(2), as a scale factor (10^2). *)
Scale == 100

----------------------------------------------------------------------------
(* JavaScript numbers *)

Fin(n) == [k |-> "fin", n |-> n]
NaN == [k |-> "nan", n |-> 0]
PosInf == [k |-> "pinf", n |-> 0]
NegInf == [k |-> "ninf", n |-> 0]

\* Number.isFinite(x)
IsFinite(x) == x.k = "fin"

\* Number.isInteger(x)
IsInteger(x) == x.k = "fin" /\ x.n % Scale = 0

\* x <= 0 on JS numbers (false for NaN)
LeqZero(x) == \/ x.k = "ninf"
              \/ x.k = "fin" /\ x.n <= 0

----------------------------------------------------------------------------
(* Inputs *)

\* cwa values a roster can hold: non-finite ones (an unparsable upload cell),
\* out-of-range ones (retained by the validator) and ordinary ones.
CwaValues == {NaN, PosInf, Fin(-2000), Fin(5000), Fin(5001), Fin(9000)}

\* A Student as the engine sees it; studentId identifies the object (its
\* position in the roster), indexNo and name play no part in the allocation.
\* The scores of the documented example (90, 80, 70, 60, 50, 40).
ExampleScores == <<Fin(9000), Fin(8000), Fin(7000), Fin(6000), Fin(5000), Fin(4000)>>

Rosters == UNION {[1..len -> CwaValues] : len \in 0..MaxStudents}
               \cup {ExampleScores}

MkStudents(cwas) == [j \in 1..Len(cwas) |-> [studentId |-> j, cwa |-> cwas[j]]]

\* Mentor counts a caller can pass: integers from -1 up, 1.5, NaN, Infinity.
NumMentorsValues == {Fin(j * Scale) : j \in (-1)..MaxMentors}
                        \cup {Fin(Scale + Scale \div 2), NaN, PosInf}

----------------------------------------------------------------------------
(* Strings: String(), trim(), the digit patterns, parseFloat, toFixed *)

Char(s, j) == SubSeq(s, j, j)

IsDigit(c) == \E d \in 0..9 : ToString(d) = c

DigitValue(c) == CHOOSE d \in 0..9 : ToString(d) = c

IsSpace(c) == c = " "

\* String.prototype.trim()
RECURSIVE TrimStart(_)
TrimStart(s) == IF Len(s) > 0 /\ IsSpace(Char(s, 1))
                THEN TrimStart(SubSeq(s, 2, Len(s))) ELSE s

RECURSIVE TrimEnd(_)
TrimEnd(s) == IF Len(s) > 0 /\ IsSpace(Char(s, Len(s)))
              THEN TrimEnd(SubSeq(s, 1, Len(s) - 1)) ELSE s

Trim(s) == TrimEnd(TrimStart(s))

\* /^\d{len}$/.test(s)
MatchesDigits(s, len) ==
    Len(s) = len /\ \A j \in 1..Len(s) : IsDigit(Char(s, j))

\* the length of the run of digits of s that starts at position j
RECURSIVE DigitRun(_, _)
DigitRun(s, j) == IF j <= Len(s) /\ IsDigit(Char(s, j))
                  THEN 1 + DigitRun(s, j + 1) ELSE 0

\* the value of a string of digits
RECURSIVE DigitsValue(_)
DigitsValue(s) == IF Len(s) = 0 THEN 0
                  ELSE 10 * DigitsValue(SubSeq(s, 1, Len(s) - 1))
                           + DigitValue(Char(s, Len(s)))

RECURSIVE Pow10(_)
Pow10(e) == IF e = 0 THEN 1 ELSE 10 * Pow10(e - 1)

\* A parsed number before rounding: k as for JS numbers, and for a finite
\* one the exact value num / den.
Ratio(k, num, den) == [k |-> k, num |-> num, den |-> den]

\* Number.parseFloat(s): leading white space is skipped, then the longest
\* prefix that is a decimal literal is read (sign, "Infinity", digits with
\* an optional fraction); anything after it is ignored, and a string with
\* no such prefix gives NaN.  Exponents are not read: no cell of the model
\* holds one.
ParseFloat(s) ==
    LET t == TrimStart(s)
        signed == Len(t) > 0 /\ Char(t, 1) \in {"+", "-"}
        neg == Len(t) > 0 /\ Char(t, 1) = "-"
        u == IF signed THEN SubSeq(t, 2, Len(t)) ELSE t
        ni == DigitRun(u, 1)
        dot == ni < Len(u) /\ Char(u, ni + 1) = "."
        nf == IF dot THEN DigitRun(u, ni + 2) ELSE 0
        mant == DigitsValue(SubSeq(u, 1, ni)) * Pow10(nf)
                    + DigitsValue(SubSeq(u, ni + 2, ni + 1 + nf))
    IN  IF Len(u) >= 8 /\ SubSeq(u, 1, 8) = "Infinity"
        THEN Ratio(IF neg THEN "ninf" ELSE "pinf", 0, 1)
        ELSE IF ni + nf = 0 THEN Ratio("nan", 0, 1)
        ELSE Ratio("fin", IF neg THEN 0 - mant ELSE mant, Pow10(nf))

\* Number(x.toFixed(2)) of a parsed number, in hundredths: the nearest
\* hundredth; exactly half-way between two, the binary value of x decides
\* and either neighbour can come out (tieUp).
RoundToFixed2(x, tieUp) ==
    IF x.k # "fin" THEN [k |-> x.k, n |-> 0]
    ELSE LET q == (2 * x.num * Scale + x.den) \div (2 * x.den)
             tie == (2 * x.num * Scale + x.den) % (2 * x.den) = 0
         IN  Fin(IF tie /\ ~tieUp THEN q - 1 ELSE q)

\* String(x) of a JS number held in hundredths
NumberToString(x) ==
    IF x.k = "nan" THEN "NaN"
    ELSE IF x.k = "pinf" THEN "Infinity"
    ELSE IF x.k = "ninf" THEN "-Infinity"
    ELSE LET a == IF x.n < 0 THEN 0 - x.n ELSE x.n
             ip == ToString(a \div Scale)
             fr == a % Scale
             fs == IF fr = 0 THEN ""
                   ELSE IF fr % 10 = 0 THEN "." \o ToString(fr \div 10)
                   ELSE IF fr < 10 THEN ".0" \o ToString(fr)
                   ELSE "." \o ToString(fr)
         IN  (IF x.n < 0 THEN "-" ELSE "") \o ip \o fs

----------------------------------------------------------------------------
(* assignStudentsBidirectional *)

NoResult == [assignments |-> <<>>, passes |-> <<"none">>]

\* the guard of the throw: !Number.isInteger(numMentors) || numMentors <= 0
InvalidNumMentorsNoIntegerCheck(nm) == ~IsFinite(nm) \/ LeqZero(nm)
InvalidNumMentors(nm) == ~IsInteger(nm) \/ LeqZero(nm)

\* students.filter((s) => Number.isFinite(s.cwa))
FilterFiniteOnlyNaN(sts) == SelectSeq(sts, LAMBDA s : s.cwa.k # "nan")
FilterFinite(sts) == SelectSeq(sts, LAMBDA s : IsFinite(s.cwa))

\* the comparator (a, b) => b.cwa - a.cwa
CompareFnAscending(a, b) == a.cwa.n - b.cwa.n
CompareFn(a, b) == b.cwa.n - a.cwa.n

\* Array.prototype.sort is a stable sort: x goes after every element that
\* does not compare greater than it.
RECURSIVE InsertUnstable(_, _)
InsertUnstable(s, x) ==
    IF s = <<>> THEN <<x>>
    ELSE IF CompareFn(s[Len(s)], x) >= 0
         THEN Append(InsertUnstable(SubSeq(s, 1, Len(s) - 1), x), s[Len(s)])
         ELSE Append(s, x)

RECURSIVE Insert(_, _)
Insert(s, x) ==
    IF s = <<>> THEN <<x>>
    ELSE IF CompareFn(s[Len(s)], x) > 0
         THEN Append(Insert(SubSeq(s, 1, Len(s) - 1), x), s[Len(s)])
         ELSE Append(s, x)

RECURSIVE Sort(_)
Sort(s) == IF s = <<>> THEN <<>>
           ELSE Insert(Sort(SubSeq(s, 1, Len(s) - 1)), s[Len(s)])

\* Array.from({ length: numMentors }, (_, i) => ({ mentorIndex: i, students: [] }))
EmptyAssignmentsOneBased(n) == [j \in 1..n |-> [mentorIndex |-> j, students |-> <<>>]]
EmptyAssignments(n) == [j \in 1..n |-> [mentorIndex |-> j - 1, students |-> <<>>]]

\* assignments[m].students.push(s), m 0-based
Push(asg, m, s) ==
    [asg EXCEPT ![m + 1].students = Append(asg[m + 1].students, s)]

\* for (let m = 0; m < numMentors && i < sorted.length; m++) push sorted[i++]
RECURSIVE ForwardLoop(_, _, _, _, _)
ForwardLoop(asg, srt, i, m, n) ==
    IF m < n /\ i < Len(srt)
    THEN ForwardLoop(Push(asg, m, srt[i + 1]), srt, i + 1, m + 1, n)
    ELSE [assignments |-> asg, i |-> i]

\* for (let m = numMentors - 1; m >= 0 && i < sorted.length; m--) push sorted[i++]
RECURSIVE BackwardLoopLastBucket(_, _, _, _, _)
BackwardLoopLastBucket(asg, srt, i, m, n) ==
    IF m >= 0 /\ i < Len(srt)
    THEN BackwardLoopLastBucket(Push(asg, n - 1, srt[i + 1]), srt, i + 1, m - 1, n)
    ELSE [assignments |-> asg, i |-> i]

RECURSIVE BackwardLoop(_, _, _, _, _)
BackwardLoop(asg, srt, i, m, n) ==
    IF m >= 0 /\ i < Len(srt)
    THEN BackwardLoop(Push(asg, m, srt[i + 1]), srt, i + 1, m - 1, n)
    ELSE [assignments |-> asg, i |-> i]

\* One iteration of `while (i < sorted.length)`: record the direction, walk
\* the mentors in that direction, flip the direction.
OnePassNoFlip(st, srt, n) ==
    LET r == ForwardLoop(st.assignments, srt, st.i, 0, n)
    IN  [assignments |-> r.assignments, i |-> r.i,
         passes |-> Append(st.passes, st.direction),
         direction |-> IF st.direction = "forward" THEN "backward" ELSE "forward"]

OnePassKeepDirection(st, srt, n) ==
    LET r == IF st.direction = "forward"
             THEN ForwardLoop(st.assignments, srt, st.i, 0, n)
             ELSE BackwardLoop(st.assignments, srt, st.i, n - 1, n)
    IN  [assignments |-> r.assignments, i |-> r.i,
         passes |-> Append(st.passes, st.direction),
         direction |-> st.direction]

OnePass(st, srt, n) ==
    LET r == IF st.direction = "forward"
             THEN ForwardLoop(st.assignments, srt, st.i, 0, n)
             ELSE BackwardLoop(st.assignments, srt, st.i, n - 1, n)
    IN  [assignments |-> r.assignments, i |-> r.i,
         passes |-> Append(st.passes, st.direction),
         direction |-> IF st.direction = "forward" THEN "backward" ELSE "forward"]

\* the loop state before the first iteration
LoopInit(n) == [assignments |-> EmptyAssignments(n), i |-> 0,
                passes |-> <<>>, direction |-> "forward"]

RECURSIVE WhileLoopOffByOne(_, _, _)
WhileLoopOffByOne(st, srt, n) ==
    IF st.i < Len(srt) - 1 THEN WhileLoopOffByOne(OnePass(st, srt, n), srt, n) ELSE st

RECURSIVE WhileLoop(_, _, _)
WhileLoop(st, srt, n) ==
    IF st.i < Len(srt) THEN WhileLoop(OnePass(st, srt, n), srt, n) ELSE st

\* the mentor count as an integer, once the guard has accepted it
MentorCount(nm) == nm.n \div Scale

\* the body after the guard
Allocate(sts, nm) ==
    LET srt == Sort(FilterFinite(sts))
        fin == WhileLoop(LoopInit(MentorCount(nm)), srt, MentorCount(nm))
    IN  [sorted |-> srt,
         result |-> [assignments |-> fin.assignments, passes |-> fin.passes]]

AssignStudentsBidirectional ==
    /\ pc = "start"
    /\ IF InvalidNumMentors(numMentors)
       THEN /\ pc' = "threw"
            /\ UNCHANGED <<sorted, result>>
       ELSE /\ pc' = "returned"
            /\ sorted' = Allocate(students, numMentors).sorted
            /\ result' = Allocate(students, numMentors).result
    /\ UNCHANGED <<students, numMentors, stats, workbook, parsed, heapVars, pageVars>>

----------------------------------------------------------------------------
(* getMentorStats *)

\* a + b on JS numbers
JSAdd(a, b) ==
    IF a.k = "nan" \/ b.k = "nan" THEN NaN
    ELSE IF a.k = "fin" /\ b.k = "fin" THEN Fin(a.n + b.n)
    ELSE IF a.k = "fin" THEN b
    ELSE IF b.k = "fin" \/ a.k = b.k THEN a
    ELSE NaN

\* a < b on JS numbers (false when either is NaN)
JSLess(a, b) ==
    /\ a.k # "nan" /\ b.k # "nan" /\ a.k # "pinf" /\ b.k # "ninf"
    /\ \/ a.k = "ninf" \/ b.k = "pinf"
       \/ a.n < b.n

\* a.students.reduce((sum, s) => sum + s.cwa, 0)
RECURSIVE SumCwa(_)
SumCwa(sts) == IF sts = <<>> THEN Fin(0)
               ELSE JSAdd(SumCwa(SubSeq(sts, 1, Len(sts) - 1)), sts[Len(sts)].cwa)

\* Math.max(...a.students.map((s) => s.cwa)) of a non-empty bucket
RECURSIVE MathMax(_)
MathMax(sts) ==
    IF Len(sts) = 1 THEN sts[1].cwa
    ELSE LET r == MathMax(SubSeq(sts, 1, Len(sts) - 1))
             x == sts[Len(sts)].cwa
         IN  IF r.k = "nan" \/ x.k = "nan" THEN NaN
             ELSE IF JSLess(r, x) THEN x ELSE r

\* Math.min(...a.students.map((s) => s.cwa)) of a non-empty bucket
RECURSIVE MathMin(_)
MathMin(sts) ==
    IF Len(sts) = 1 THEN sts[1].cwa
    ELSE LET r == MathMin(SubSeq(sts, 1, Len(sts) - 1))
             x == sts[Len(sts)].cwa
         IN  IF r.k = "nan" \/ x.k = "nan" THEN NaN
             ELSE IF JSLess(x, r) THEN x ELSE r

\* Number((sum / count).toFixed(2)): the quotient rounded to the nearest
\* hundredth.  sum is in hundredths already, so the result is the integer
\* nearest to sum.n / count; when the quotient lies exactly half-way the
\* digit toFixed prints depends on the binary value of the quotient, and
\* either neighbour can come out (tieUp).
ToFixed2(sum, count, tieUp) ==
    IF ~IsFinite(sum) THEN sum
    ELSE LET q == (2 * sum.n + count) \div (2 * count)
             tie == (2 * sum.n + count) % (2 * count) = 0
         IN  Fin(IF tie /\ ~tieUp THEN q - 1 ELSE q)

\* the callback of assignments.map
MentorStatFirstLast(a, tieUp) ==
    LET count == Len(a.students)
    IN  [mentorIndex |-> a.mentorIndex,
         count |-> count,
         averageCwa |-> IF count # 0 THEN ToFixed2(SumCwa(a.students), count, tieUp)
                        ELSE Fin(0),
         highestCwa |-> IF count # 0 THEN a.students[1].cwa ELSE Fin(0),
         lowestCwa |-> IF count # 0 THEN a.students[1].cwa ELSE Fin(0)]

MentorStat(a, tieUp) ==
    LET count == Len(a.students)
    IN  [mentorIndex |-> a.mentorIndex,
         count |-> count,
         averageCwa |-> IF count # 0 THEN ToFixed2(SumCwa(a.students), count, tieUp)
                        ELSE Fin(0),
         highestCwa |-> IF count # 0 THEN MathMax(a.students) ELSE Fin(0),
         lowestCwa |-> IF count # 0 THEN MathMin(a.students) ELSE Fin(0)]

\* stats = getMentorStats(result.assignments), as the page calls it
GetMentorStats ==
    /\ pc = "returned"
    /\ \E tieUp \in [1..Len(result.assignments) -> BOOLEAN] :
          stats' = [j \in 1..Len(result.assignments) |->
                       MentorStat(result.assignments[j], tieUp[j])]
    /\ pc' = "stats"
    /\ UNCHANGED <<students, numMentors, sorted, result, workbook, parsed, heapVars, pageVars>>

----------------------------------------------------------------------------
(* parseStudentsFromFile *)

REQUIRED_HEADERS == <<"STUDENTID", "INDEXNO", "NAME", "CWA">>

RequiredSet == {REQUIRED_HEADERS[j] : j \in 1..Len(REQUIRED_HEADERS)}

\* A cell is a text cell, a numeric cell, or undefined (what r[h] gives when
\* the row has no key h).
Text(s) == [t |-> "str", s |-> s, v |-> Fin(0)]
Numeric(n) == [t |-> "num", s |-> "", v |-> Fin(n)]
Undefined == [t |-> "undefined", s |-> "", v |-> Fin(0)]

\* String(cell)
String(c) == IF c.t = "str" THEN c.s
             ELSE IF c.t = "num" THEN NumberToString(c.v)
             ELSE "undefined"

\* r[h]
Get(r, h) == IF h \in DOMAIN r THEN r[h] ELSE Undefined

\* the cells a column of an uploaded sheet holds in the model
CellsOf(h) ==
    IF h = "STUDENTID" THEN {Text(" 12345678 "), Text("1234567")}
    ELSE IF h = "INDEXNO" THEN {Numeric(1234567 * Scale), Text("12345678")}
    ELSE IF h = "NAME" THEN {Text("MENSAH, Ama (Miss)"), Text("  ")}
    ELSE {Text("95.555"), Text("100.004"), Numeric(-2000), Text("")}

\* sheet_to_json(sheet, { defval: "" }) gives every row the same keys, the
\* header cells of the sheet; only the required ones among them matter.
RowsOver(hdr) == {r \in [hdr -> UNION {CellsOf(h) : h \in RequiredSet}] :
                     \A h \in hdr : r[h] \in CellsOf(h)}

Workbooks ==
    {[SheetNames |-> <<>>, rows |-> <<>>]}
        \cup {[SheetNames |-> <<"Students">>, rows |-> rs] :
                 rs \in UNION {[1..len -> RowsOver(hdr)] :
                                  len \in 0..MaxRows, hdr \in SUBSET RequiredSet}}

NoWorkbook == [SheetNames |-> <<>>, rows |-> <<>>]

NoParse == [students |-> <<>>, errors |-> <<"none">>]

\* the header check: one error per required column that is no key of the
\* first row, in the order of REQUIRED_HEADERS
RECURSIVE HeaderErrors(_, _)
HeaderErrors(first, j) ==
    IF j > Len(REQUIRED_HEADERS) THEN <<>>
    ELSE (IF REQUIRED_HEADERS[j] \notin DOMAIN first
          THEN <<"Missing required column: " \o REQUIRED_HEADERS[j]>>
          ELSE <<>>)
             \o HeaderErrors(first, j + 1)

\* the body of the row loop for rows[i + 1] (i as in the source, 0-based)
RowStudent(r, tieUp) ==
    [studentId |-> Trim(String(Get(r, "STUDENTID"))),
     indexNo |-> Trim(String(Get(r, "INDEXNO"))),
     name |-> Trim(String(Get(r, "NAME"))),
     cwa |-> RoundToFixed2(ParseFloat(String(Get(r, "CWA"))), tieUp)]

RowErrorsCountFromOne(r, i) ==
    LET rowNum == i + 1
        studentId == Trim(String(Get(r, "STUDENTID")))
        indexNo == Trim(String(Get(r, "INDEXNO")))
        name == Trim(String(Get(r, "NAME")))
        cwa == ParseFloat(String(Get(r, "CWA")))
        pre == "Row " \o ToString(rowNum) \o ": "
    IN  (IF ~MatchesDigits(studentId, 8)
         THEN <<pre \o "STUDENTID must be 8 digits">> ELSE <<>>)
        \o (IF ~MatchesDigits(indexNo, 7)
            THEN <<pre \o "INDEXNO must be 7 digits">> ELSE <<>>)
        \o (IF name = ""
            THEN <<pre \o "NAME is required">> ELSE <<>>)
        \o (IF cwa.k # "fin" \/ cwa.num < 0 \/ cwa.num > 100 * cwa.den
            THEN <<pre \o "CWA must be a number between 0 and 100">> ELSE <<>>)

RowErrors(r, i) ==
    LET rowNum == i + 2
        studentId == Trim(String(Get(r, "STUDENTID")))
        indexNo == Trim(String(Get(r, "INDEXNO")))
        name == Trim(String(Get(r, "NAME")))
        cwa == ParseFloat(String(Get(r, "CWA")))
        pre == "Row " \o ToString(rowNum) \o ": "
    IN  (IF ~MatchesDigits(studentId, 8)
         THEN <<pre \o "STUDENTID must be 8 digits">> ELSE <<>>)
        \o (IF ~MatchesDigits(indexNo, 7)
            THEN <<pre \o "INDEXNO must be 7 digits">> ELSE <<>>)
        \o (IF name = ""
            THEN <<pre \o "NAME is required">> ELSE <<>>)
        \o (IF cwa.k # "fin" \/ cwa.num < 0 \/ cwa.num > 100 * cwa.den
            THEN <<pre \o "CWA must be a number between 0 and 100">> ELSE <<>>)

\* for (let i = 0; i < rows.length; i++) { ...; students.push(...) }
RECURSIVE RowLoopDropInvalid(_, _, _, _)
RowLoopDropInvalid(rs, i, acc, tieUp) ==
    IF i >= Len(rs) THEN acc
    ELSE IF RowErrors(rs[i + 1], i) # <<>>
    THEN RowLoopDropInvalid(rs, i + 1,
                 [students |-> acc.students,
                  errors |-> acc.errors \o RowErrors(rs[i + 1], i)], tieUp)
    ELSE RowLoopDropInvalid(rs, i + 1,
                 [students |-> Append(acc.students, RowStudent(rs[i + 1], tieUp[i + 1])),
                  errors |-> acc.errors], tieUp)

RECURSIVE RowLoop(_, _, _, _)
RowLoop(rs, i, acc, tieUp) ==
    IF i >= Len(rs) THEN acc
    ELSE RowLoop(rs, i + 1,
                 [students |-> Append(acc.students, RowStudent(rs[i + 1], tieUp[i + 1])),
                  errors |-> acc.errors \o RowErrors(rs[i + 1], i)],
                 tieUp)

ParseResultOfEmptyFirst(wb, tieUp) ==
    IF Len(wb.rows) = 0
    THEN [students |-> <<>>, errors |-> <<"Sheet is empty">>]
    ELSE IF wb.SheetNames = <<>>
    THEN [students |-> <<>>, errors |-> <<"No sheets found in file">>]
    ELSE RowLoop(wb.rows, 0,
                 [students |-> <<>>, errors |-> HeaderErrors(wb.rows[1], 1)],
                 tieUp)

ParseResultOf(wb, tieUp) ==
    IF wb.SheetNames = <<>>
    THEN [students |-> <<>>, errors |-> <<"No sheets found in file">>]
    ELSE IF Len(wb.rows) = 0
    THEN [students |-> <<>>, errors |-> <<"Sheet is empty">>]
    ELSE RowLoop(wb.rows, 0,
                 [students |-> <<>>, errors |-> HeaderErrors(wb.rows[1], 1)],
                 tieUp)

ParseStudentsFromFile ==
    /\ pc = "start"
    /\ \E tieUp \in [1..Len(workbook.rows) -> BOOLEAN] :
          parsed' = ParseResultOf(workbook, tieUp)
    /\ pc' = "parsed"
    /\ UNCHANGED <<students, numMentors, sorted, result, stats, workbook, heapVars, pageVars>>

----------------------------------------------------------------------------
(* Arrays as objects: what the calls allocate and what they write *)

\* no array is tracked (the specifications that do not look at aliasing)
HeapIdle == heap = <<>> /\ calls = <<>>

\* selectedFileName = null
NoFile == "null"

\* the page is not rendered (the specifications of the library functions)
PageIdle ==
    /\ mode = "demo"
    /\ step = "setup"
    /\ uploadErrors = <<>>
    /\ selectedFileName = NoFile
    /\ pending = {}

\* the heap after `cleaned` and `sorted` are built from the array `in`:
\* filter / map give a new array, [...cleaned] a copy of it, and sort works
\* in place on that copy.  `cleaned` is the last but one array, `sorted`
\* the last.
HeapSortedInPlace(h, in) ==
    LET h0 == [h EXCEPT ![in] = Sort(@)]
        h1 == Append(h0, FilterFinite(h0[in]))
    IN  Append(h1, h1[Len(h1)])

HeapSorted(h, in) ==
    LET h1 == Append(h, FilterFinite(h[in]))
        h2 == Append(h1, h1[Len(h1)])
    IN  [h2 EXCEPT ![Len(h2)] = Sort(@)]

\* Array.from: n new objects, each with a new, empty students array
BucketRefs(h, n) == [j \in 1..n |-> Len(h) + j]

HeapWithBuckets(h, n) == h \o [j \in 1..n |-> <<>>]

\* the pushes of the while loop, on the arrays the buckets refer to
HeapPushed(h, refs, asg) ==
    [r \in 1..Len(h) |->
        IF \E j \in 1..Len(refs) : refs[j] = r
        THEN h[r] \o asg[CHOOSE j \in 1..Len(refs) : refs[j] = r].students
        ELSE h[r]]

\* one call assignStudentsBidirectional(in, nm) with a valid nm: the heap it
\* leaves and the result it returns, whose buckets are array references
CallOnHeap(h, in, nm) ==
    LET n == MentorCount(nm)
        h3 == HeapSorted(h, in)
        refs == BucketRefs(h3, n)
        fin == WhileLoop(LoopInit(n), h3[Len(h3)], n)
        h5 == HeapPushed(HeapWithBuckets(h3, n), refs, fin.assignments)
    IN  [heap |-> h5,
         assignments |-> [j \in 1..n |-> [mentorIndex |-> j - 1, students |-> refs[j]]],
         passes |-> fin.passes,
         returned |-> [j \in 1..n |-> h5[refs[j]]]]

\* a caller calls the engine on its roster array (reference 1)
CallAssign ==
    /\ pc = "start"
    /\ Len(calls) < MaxCalls
    /\ \E j \in 1..MaxMentors :
          LET c == CallOnHeap(heap, 1, Fin(j * Scale))
          IN  /\ numMentors' = Fin(j * Scale)
              /\ heap' = c.heap
              /\ calls' = Append(calls, [assignments |-> c.assignments,
                                         passes |-> c.passes,
                                         returned |-> c.returned])
    /\ UNCHANGED <<students, pc, sorted, result, stats, workbook, parsed, pageVars>>

\* a caller calls getMentorStats on the assignments of an earlier call; the
\* function only reads them
CallStats ==
    /\ pc = "start"
    /\ \E k \in 1..Len(calls) :
          \E tieUp \in [1..Len(calls[k].assignments) -> BOOLEAN] :
             stats' = [j \in 1..Len(calls[k].assignments) |->
                          MentorStat([mentorIndex |-> calls[k].assignments[j].mentorIndex,
                                      students |-> heap[calls[k].assignments[j].students]],
                                     tieUp[j])]
    /\ UNCHANGED <<students, numMentors, pc, sorted, result, workbook, parsed, heapVars, pageVars>>

----------------------------------------------------------------------------
(* The page: src/app/page.tsx *)

\* demoPage, demoPageSize and isDragging only choose what is drawn (the
\* slice of the demo table, the highlight of the drop zone): every row of
\* the demo roster can be paged to, so the model lets any row be edited.

\* generateDemoStudents(36): the size of the demo roster, scaled down
DemoSize == 2

\* the in-flight parses the model follows at once
MaxPending == 1

\* useState<number>(6)
InitialMentors == Fin(6 * Scale)

\* Number((50 + Math.random() * 50).toFixed(2)): a value of 50.00 .. 100.00
DemoCwaValues == {Fin(50 * Scale), Fin(100 * Scale)}

\* generateDemoStudents(count) with the scores drawn; the names come from
\* fixed pools through a shuffle and no handler reads them, so one
\* placeholder stands for them
GenerateDemoStudents(cwas) ==
    [j \in 1..Len(cwas) |->
        [studentId |-> ToString(10000000 + (j - 1)),
         indexNo |-> ToString(2000000 + (j - 1)),
         name |-> "name",
         cwa |-> cwas[j]]]

DemoRosters == {GenerateDemoStudents(c) : c \in [1..DemoSize -> DemoCwaValues]}

\* Math.max(a, b) and Math.min(a, b) on JS numbers
Max2(a, b) == IF a.k = "nan" \/ b.k = "nan" THEN NaN
              ELSE IF JSLess(a, b) THEN b ELSE a

Min2(a, b) == IF a.k = "nan" \/ b.k = "nan" THEN NaN
              ELSE IF JSLess(b, a) THEN b ELSE a

\* Math.min(students.length, Math.max(1, prev))
Bounded(len, prev) == Min2(Fin(len * Scale), Max2(Fin(Scale), prev))

\* the effect on [students.length]: it runs when the length has changed
LengthEffectNever(before, after, nm) == nm
LengthEffect(before, after, nm) ==
    IF Len(after) # Len(before) /\ Len(after) > 0
    THEN Bounded(Len(after), nm) ELSE nm

\* what the mentor-count input can hold (type="number"): Number("") is 0,
\* a fraction, integers, one more than the demo roster
EnteredMentors == {Fin(0), Fin(Scale + Scale \div 2), Fin(2 * Scale),
                   Fin((DemoSize + 1) * Scale)}

\* Number(e.target.value) of a cwa cell of the demo table: 150, -20, NaN
\* (an entry that is no number), 99.996
EnteredCwa == {Ratio("fin", 150, 1), Ratio("fin", -20, 1), Ratio("nan", 0, 1),
               Ratio("fin", 99996, 1000)}

\* clampCwa(value): Math.round(clamped * 100) / 100; exactly half-way
\* between two hundredths the binary value of clamped * 100 decides (tieUp)
ClampCwaNoUpperBound(value, tieUp) ==
    IF value.k # "fin" THEN Fin(0)
    ELSE LET clamped == IF value.num < 0 THEN Ratio("fin", 0, 1) ELSE value
             q == (2 * clamped.num * Scale + clamped.den) \div (2 * clamped.den)
             tie == (2 * clamped.num * Scale + clamped.den) % (2 * clamped.den) = 0
         IN  Fin(IF tie /\ ~tieUp THEN q - 1 ELSE q)

ClampCwa(value, tieUp) ==
    IF value.k # "fin" THEN Fin(0)
    ELSE LET clamped == IF value.num < 0 THEN Ratio("fin", 0, 1)
                        ELSE IF value.num > 100 * value.den THEN Ratio("fin", 100, 1)
                        ELSE value
             q == (2 * clamped.num * Scale + clamped.den) \div (2 * clamped.den)
             tie == (2 * clamped.num * Scale + clamped.den) % (2 * clamped.den) = 0
         IN  Fin(IF tie /\ ~tieUp THEN q - 1 ELSE q)

\* value * 100 lies exactly half-way between two integers
IsHalfway(value) ==
    value.k = "fin" /\ (2 * value.num * Scale + value.den) % (2 * value.den) = 0

\* updateStudentCwa(index, value), index 0-based
UpdateStudentCwa(sts, index, value) ==
    [sts EXCEPT ![index + 1] =
        [sts[index + 1] EXCEPT !.cwa = IF IsFinite(value) THEN value ELSE Fin(0)]]

\* a complete row of an uploaded sheet with the given CWA cell
UploadRow(cwaCell) ==
    [h \in RequiredSet |->
        IF h = "STUDENTID" THEN Text(" 12345678 ")
        ELSE IF h = "INDEXNO" THEN Numeric(1234567 * Scale)
        ELSE IF h = "NAME" THEN Text("MENSAH, Ama (Miss)")
        ELSE cwaCell]

\* the files the user can choose: a valid one-row sheet, a two-row sheet whose
\* scores are -20 and blank, and a file xlsx.read rejects
PageFiles ==
    {[name |-> "roster.xlsx", readable |-> TRUE,
      wb |-> [SheetNames |-> <<"Students">>,
              rows |-> <<UploadRow(Text("95.555"))>>]],
     [name |-> "marks.xlsx", readable |-> TRUE,
      wb |-> [SheetNames |-> <<"Students">>,
              rows |-> <<UploadRow(Numeric(-2000)), UploadRow(Text(""))>>]],
     [name |-> "broken.xlsx", readable |-> FALSE, wb |-> NoWorkbook]}

\* first render of Home(): the useState initial values, no effect run yet
InitPage ==
    /\ students = <<>>
    /\ numMentors = InitialMentors
    /\ pc = "start"
    /\ sorted = <<>>
    /\ result = NoResult
    /\ stats = <<>>
    /\ workbook = NoWorkbook
    /\ parsed = NoParse
    /\ HeapIdle
    /\ PageIdle

\* the effects after the first render: the one on [mode] fills the demo
\* roster, the one on [students.length] then bounds the mentor count
Mount ==
    /\ pc = "start"
    /\ \E demo \in DemoRosters :
          /\ students' = demo
          /\ numMentors' = LengthEffect(students, demo, numMentors)
    /\ result' = NoResult
    /\ step' = "setup"
    /\ pc' = "mounted"
    /\ UNCHANGED <<sorted, stats, workbook, parsed, heapVars,
                   mode, uploadErrors, selectedFileName, pending>>

\* the page is idle: the effects of the first render have run and no alert
\* is open (alert() is modal and holds every handler and continuation back)
Mounted == pc = "mounted"

\* the mode buttons: setMode(m), then the effect on [mode] and, when the
\* roster's length changed, the effect on [students.length]
SetMode(m) ==
    /\ Mounted
    /\ m # mode
    /\ mode' = m
    /\ \E next \in IF m = "demo" THEN DemoRosters ELSE {<<>>} :
          /\ students' = next
          /\ numMentors' = LengthEffect(students, next, numMentors)
    /\ result' = NoResult
    /\ step' = "setup"
    /\ UNCHANGED <<pc, sorted, stats, workbook, parsed, heapVars,
                   uploadErrors, selectedFileName, pending>>

\* onChange of the mentor-count input
ChangeMentors(next) ==
    /\ Mounted
    /\ numMentors' = IF Len(students) > 0
                     THEN Bounded(Len(students), next)
                     ELSE Max2(Fin(Scale), next)
    /\ UNCHANGED <<students, pc, sorted, result, stats, workbook, parsed,
                   heapVars, pageVars>>

\* run(): the button is rendered when mode !== "upload" || students.length > 0;
\* a throw of the engine is caught and alerted
Run ==
    /\ Mounted
    /\ mode # "upload" \/ Len(students) > 0
    /\ IF InvalidNumMentors(numMentors)
       THEN /\ pc' = "alert"
            /\ UNCHANGED <<result, step>>
       ELSE /\ result' = Allocate(students, numMentors).result
            /\ step' = "results"
            /\ UNCHANGED pc
    /\ UNCHANGED <<students, numMentors, sorted, stats, workbook, parsed,
                   heapVars, mode, uploadErrors, selectedFileName, pending>>

\* the user closes alert("Invalid configuration. Please check inputs.")
DismissAlert ==
    /\ pc = "alert"
    /\ pc' = "mounted"
    /\ UNCHANGED <<students, numMentors, sorted, result, stats, workbook,
                   parsed, heapVars, pageVars>>

\* the Reset button
Reset ==
    /\ Mounted
    /\ result' = NoResult
    /\ \E next \in IF mode = "demo" THEN DemoRosters ELSE {<<>>} :
          /\ students' = next
          /\ numMentors' = LengthEffect(students, next, numMentors)
    /\ step' = "setup"
    /\ UNCHANGED <<pc, sorted, stats, workbook, parsed, heapVars,
                   mode, uploadErrors, selectedFileName, pending>>

\* onChange of a cwa cell of the demo table (rendered when step is setup and
\* mode is demo): updateStudentCwa(globalIndex, clampCwa(Number(value)))
EditCwa(index, value) ==
    /\ Mounted
    /\ step = "setup" /\ mode = "demo"
    /\ index < Len(students)
    /\ \E tieUp \in IF IsHalfway(value) THEN BOOLEAN ELSE {TRUE} :
          students' = UpdateStudentCwa(students, index, ClampCwa(value, tieUp))
    /\ UNCHANGED <<numMentors, pc, sorted, result, stats, workbook, parsed,
                   heapVars, pageVars>>

\* handleFileChange(file) up to its await (the file input and the drop zone
\* are rendered when step is setup and mode is upload)
HandleFileChange(file) ==
    /\ Mounted
    /\ step = "setup" /\ mode = "upload"
    /\ file \notin pending
    /\ Cardinality(pending) < MaxPending
    /\ uploadErrors' = <<>>
    /\ result' = NoResult
    /\ pending' = pending \cup {file}
    /\ UNCHANGED <<students, numMentors, pc, sorted, stats, workbook, parsed,
                   heapVars, mode, step, selectedFileName>>

\* handleFileChange(file) from the await on: the parse has settled
ParseSettledKeepStep(file) ==
    /\ Mounted
    /\ file \in pending
    /\ pending' = pending \ {file}
    /\ IF file.readable
       THEN \E tieUp \in [1..Len(file.wb.rows) -> BOOLEAN] :
               LET res == ParseResultOf(file.wb, tieUp)
               IN  /\ students' = res.students
                   /\ numMentors' = LengthEffect(students, res.students, numMentors)
                   /\ uploadErrors' = res.errors
                   /\ selectedFileName' = file.name
                   /\ UNCHANGED step
       ELSE /\ uploadErrors' =
                  <<"Failed to read file. Ensure it is a valid Excel document.">>
            /\ UNCHANGED <<students, numMentors, selectedFileName, step>>
    /\ UNCHANGED <<pc, sorted, result, stats, workbook, parsed, heapVars, mode>>

ParseSettled(file) ==
    /\ Mounted
    /\ file \in pending
    /\ pending' = pending \ {file}
    /\ IF file.readable
       THEN \E tieUp \in [1..Len(file.wb.rows) -> BOOLEAN] :
               LET res == ParseResultOf(file.wb, tieUp)
               IN  /\ students' = res.students
                   /\ numMentors' = LengthEffect(students, res.students, numMentors)
                   /\ uploadErrors' = res.errors
                   /\ selectedFileName' = file.name
                   /\ step' = "preview"
       ELSE /\ uploadErrors' =
                  <<"Failed to read file. Ensure it is a valid Excel document.">>
            /\ UNCHANGED <<students, numMentors, selectedFileName, step>>
    /\ UNCHANGED <<pc, sorted, result, stats, workbook, parsed, heapVars, mode>>

\* the Remove button beside the file name
Remove ==
    /\ Mounted
    /\ step = "setup" /\ mode = "upload"
    /\ selectedFileName # NoFile
    /\ selectedFileName' = NoFile
    /\ students' = <<>>
    /\ uploadErrors' = <<>>
    /\ UNCHANGED <<numMentors, pc, sorted, result, stats, workbook, parsed,
                   heapVars, mode, step, pending>>

\* the "View preview" button
ViewPreview ==
    /\ Mounted
    /\ step = "setup" /\ mode = "upload"
    /\ Len(students) > 0 \/ selectedFileName # NoFile
    /\ step' = "preview"
    /\ UNCHANGED <<students, numMentors, pc, sorted, result, stats, workbook,
                   parsed, heapVars, mode, uploadErrors, selectedFileName,
                   pending>>

\* the "Back" button of the preview
BackFromPreview ==
    /\ Mounted
    /\ step = "preview" /\ mode = "upload"
    /\ step' = "setup"
    /\ UNCHANGED <<students, numMentors, pc, sorted, result, stats, workbook,
                   parsed, heapVars, mode, uploadErrors, selectedFileName,
                   pending>>

\* the "Back to setup" button of the results
BackToSetup ==
    /\ Mounted
    /\ step = "results" /\ result # NoResult
    /\ step' = "setup"
    /\ UNCHANGED <<students, numMentors, pc, sorted, result, stats, workbook,
                   parsed, heapVars, mode, uploadErrors, selectedFileName,
                   pending>>

NextPage ==
    \/ Mount
    \/ \E m \in {"demo", "upload"} : SetMode(m)
    \/ \E next \in EnteredMentors : ChangeMentors(next)
    \/ Run
    \/ DismissAlert
    \/ Reset
    \/ \E index \in 0..(DemoSize - 1), value \in EnteredCwa : EditCwa(index, value)
    \/ \E file \in PageFiles : HandleFileChange(file)
    \/ \E file \in PageFiles : ParseSettled(file)
    \/ Remove
    \/ ViewPreview
    \/ BackFromPreview
    \/ BackToSetup

SpecPage == InitPage /\ [][NextPage]_vars

----------------------------------------------------------------------------
(* The allocation engine and the statistics aggregator on every input *)

Init ==
    /\ students \in {MkStudents(c) : c \in Rosters}
    /\ numMentors \in NumMentorsValues
    /\ pc = "start"
    /\ sorted = <<>>
    /\ result = NoResult
    /\ stats = <<>>
    /\ workbook = NoWorkbook
    /\ parsed = NoParse
    /\ HeapIdle
    /\ PageIdle

Next ==
    \/ AssignStudentsBidirectional
    \/ GetMentorStats

Spec == Init /\ [][Next]_vars

----------------------------------------------------------------------------
(* Properties of the allocation engine *)

Returned == pc \in {"returned", "stats"}

\* the mentor count of a call that returned
N == numMentors.n \div Scale

\* the roster positions of the students with a finite cwa
FiniteIds == {j \in 1..Len(students) : students[j].cwa.k = "fin"}

Bucket(b) == result.assignments[b + 1].students

RECURSIVE SumSizes(_)
SumSizes(asg) == IF asg = <<>> THEN 0
                 ELSE Len(asg[Len(asg)].students) + SumSizes(SubSeq(asg, 1, Len(asg) - 1))

Total == SumSizes(result.assignments)

\* the bucket the serpentine gives to 0-based rank k among n mentors
SerpentineBucket(k, n) ==
    IF (k \div n) % 2 = 0 THEN k % n ELSE n - 1 - (k % n)

\* C1: the student at 0-based rank k of the sorted sequence is the
\* floor(k/n)-th element of bucket (k mod n) when floor(k/n) is even and of
\* bucket (n-1-(k mod n)) when it is odd.
C1_SerpentinePlacement ==
    Returned =>
        \A k \in 0..(Len(sorted) - 1) :
            /\ Len(Bucket(SerpentineBucket(k, N))) >= (k \div N) + 1
            /\ Bucket(SerpentineBucket(k, N))[(k \div N) + 1] = sorted[k + 1]

\* the documented example: 90,80,70,60,50,40 over two mentors
C1_Witness ==
    /\ pc = "returned"
    /\ students = MkStudents(ExampleScores)
    /\ N = 2
    /\ [j \in 1..3 |-> Bucket(0)[j].cwa] = <<Fin(9000), Fin(6000), Fin(5000)>>
    /\ [j \in 1..3 |-> Bucket(1)[j].cwa] = <<Fin(8000), Fin(7000), Fin(4000)>>

\* C2: the bucket sizes of a result add up to the number of input students
\* whose cwa is finite.
C2_ConservesCount ==
    Returned => Total = Cardinality(FiniteIds)

\* a roster of which some students are dropped and some are placed
C2_Witness ==
    /\ pc = "returned"
    /\ Cardinality(FiniteIds) > N
    /\ Cardinality(FiniteIds) < Len(students)
    /\ Total = Cardinality(FiniteIds)

\* C3: any two buckets differ in size by at most
\* ceil(total/n) - floor(total/n), which is 0 when n divides total and 1
\* otherwise.
C3_BalanceBound ==
    Returned =>
        \A a, b \in 0..(N - 1) :
            Len(Bucket(a)) - Len(Bucket(b))
                <= ((Total + N - 1) \div N) - (Total \div N)

\* an uneven allocation: the last sweep is partial
C3_Witness ==
    /\ pc = "returned"
    /\ N = 3
    /\ Total = 5
    /\ Len(Bucket(0)) = 1 /\ Len(Bucket(1)) = 2 /\ Len(Bucket(2)) = 2

\* numMentors is a positive integer
PositiveInteger(x) == \E j \in 1..(MaxMentors + 1) : x = Fin(j * Scale)

\* C4: the call throws exactly when numMentors is not a positive integer,
\* whatever the roster, and then nothing was built or returned; every call
\* with a positive integer numMentors returns a result.
C4_ThrowsIffInvalid ==
    [][pc = "start" =>
          /\ pc' \in {"threw", "returned"}
          /\ pc' = "threw" <=> ~PositiveInteger(numMentors)
          /\ pc' = "threw" => result' = NoResult /\ sorted' = <<>>
          /\ pc' = "returned" => result' # NoResult /\ Len(result'.assignments) = N]_vars

\* numMentors = 0 with an empty roster throws
C4_Witness ==
    /\ pc = "threw"
    /\ numMentors = Fin(0)
    /\ students = <<>>

\* the students one sweep placed, in the order it placed them: sweep p gave
\* each bucket it reached its p-th student, walking up or down the mentors
RECURSIVE SweepStudents(_, _, _)
SweepStudents(p, m, dir) ==
    IF m < 0 \/ m >= Len(result.assignments) THEN <<>>
    ELSE (IF Len(Bucket(m)) >= p THEN <<Bucket(m)[p]>> ELSE <<>>)
             \o SweepStudents(p, IF dir = "forward" THEN m + 1 ELSE m - 1, dir)

RECURSIVE PlacementFrom(_)
PlacementFrom(p) ==
    IF p > Len(result.passes) THEN <<>>
    ELSE SweepStudents(p,
                       IF result.passes[p] = "forward" THEN 0
                       ELSE Len(result.assignments) - 1,
                       result.passes[p])
             \o PlacementFrom(p + 1)

\* the sequence in which the students were placed
PlacementOrder == PlacementFrom(1)

\* C5: the placement order is the stable descending sort of the filtered
\* roster: it holds exactly the finite-cwa students, cwa never increases
\* along it, and students of equal cwa keep their input order.
C5_StableDescendingOrder ==
    Returned =>
        /\ PlacementOrder = sorted
        /\ Len(PlacementOrder) = Cardinality(FiniteIds)
        /\ {PlacementOrder[x].studentId : x \in 1..Len(PlacementOrder)} = FiniteIds
        /\ \A x, y \in 1..Len(PlacementOrder) :
              x < y =>
                 /\ PlacementOrder[x].cwa.n >= PlacementOrder[y].cwa.n
                 /\ PlacementOrder[x].cwa.n = PlacementOrder[y].cwa.n
                       => PlacementOrder[x].studentId < PlacementOrder[y].studentId

\* a roster given in ascending order with a tie: the sort reverses it and
\* keeps the tied pair in input order
C5_Witness ==
    /\ pc = "returned"
    /\ [j \in 1..Len(students) |-> students[j].cwa]
           = <<Fin(5000), Fin(5001), Fin(5001), Fin(9000)>>
    /\ [j \in 1..Len(PlacementOrder) |-> PlacementOrder[j].studentId] = <<4, 2, 3, 1>>

\* the loop state after p iterations of the while loop
RECURSIVE AfterPasses(_)
AfterPasses(p) == IF p = 0 THEN LoopInit(N)
                  ELSE OnePass(AfterPasses(p - 1), sorted, N)

\* C6: passes has ceil(studentCount / numMentors) entries, alternating from
\* forward, and every recorded pass placed at least one student.
C6_Passes ==
    Returned =>
        /\ Len(result.passes) = (Total + N - 1) \div N
        /\ \A p \in 1..Len(result.passes) :
              /\ result.passes[p] = IF p % 2 = 1 THEN "forward" ELSE "backward"
              /\ AfterPasses(p).i > AfterPasses(p - 1).i
              /\ \E b \in 0..(N - 1) : Len(Bucket(b)) >= p

\* three sweeps over two mentors, the last one partial
C6_Witness ==
    /\ pc = "returned"
    /\ N = 2
    /\ Total = 5
    /\ result.passes = <<"forward", "backward", "forward">>

\* C7: no student with a non-finite cwa is in a bucket, and every student
\* with a finite cwa is in exactly one bucket, once.
C7_DropsExactlyNonFinite ==
    Returned =>
        /\ \A b \in 0..(N - 1) : \A x \in 1..Len(Bucket(b)) :
              /\ Bucket(b)[x].cwa.k = "fin"
              /\ Bucket(b)[x].studentId \in 1..Len(students)
              /\ Bucket(b)[x] = students[Bucket(b)[x].studentId]
        /\ \A j \in FiniteIds :
              Cardinality({bx \in (0..(N - 1)) \X (1..Len(students)) :
                              /\ bx[2] <= Len(Bucket(bx[1]))
                              /\ Bucket(bx[1])[bx[2]].studentId = j}) = 1

\* a roster holding NaN, Infinity and finite scores
C7_Witness ==
    /\ pc = "returned"
    /\ \E j \in 1..Len(students) : students[j].cwa = NaN
    /\ \E j \in 1..Len(students) : students[j].cwa = PosInf
    /\ Cardinality(FiniteIds) >= 2
    /\ Total = Cardinality(FiniteIds)

\* C8: assignments has numMentors entries, entry i has mentorIndex i (also
\* when there are more mentors than students); when nobody is placed every
\* bucket is empty and passes is empty.
C8_AssignmentsShape ==
    Returned =>
        /\ Len(result.assignments) = N
        /\ \A b \in 0..(N - 1) : result.assignments[b + 1].mentorIndex = b
        /\ FiniteIds = {} =>
              /\ \A b \in 0..(N - 1) : Bucket(b) = <<>>
              /\ result.passes = <<>>

\* more mentors than placed students: the surplus bucket is empty
C8_Witness ==
    /\ pc = "returned"
    /\ N = 3
    /\ Total = 2
    /\ Bucket(2) = <<>>
    /\ result.assignments[3].mentorIndex = 2

----------------------------------------------------------------------------
(* Properties of the statistics aggregator *)

\* C9: one entry per bucket, in order, with the bucket's mentorIndex and
\* size; highest / lowest are the largest / smallest cwa of the bucket; an
\* empty bucket gives 0 everywhere; otherwise lowest <= average <= highest.
C9_MentorStats ==
    pc = "stats" =>
        /\ Len(stats) = Len(result.assignments)
        /\ \A j \in 1..Len(stats) :
              LET sts == result.assignments[j].students
                  cwas == {sts[x].cwa : x \in 1..Len(sts)}
              IN  /\ stats[j].mentorIndex = result.assignments[j].mentorIndex
                  /\ stats[j].count = Len(sts)
                  /\ sts = <<>> =>
                        /\ stats[j].count = 0
                        /\ stats[j].averageCwa = Fin(0)
                        /\ stats[j].highestCwa = Fin(0)
                        /\ stats[j].lowestCwa = Fin(0)
                  /\ sts # <<>> =>
                        /\ stats[j].highestCwa \in cwas
                        /\ stats[j].lowestCwa \in cwas
                        /\ \A c \in cwas : /\ c.n <= stats[j].highestCwa.n
                                           /\ c.n >= stats[j].lowestCwa.n
                        /\ stats[j].averageCwa.k = "fin"
                        /\ stats[j].lowestCwa.n <= stats[j].averageCwa.n
                        /\ stats[j].averageCwa.n <= stats[j].highestCwa.n

\* a bucket whose mean (50.005) lies half-way between two hundredths and
\* came out as the lower one
C9_Witness ==
    /\ pc = "stats"
    /\ N = 1
    /\ stats[1] = [mentorIndex |-> 0, count |-> 2, averageCwa |-> Fin(5000),
                   highestCwa |-> Fin(5001), lowestCwa |-> Fin(5000)]

----------------------------------------------------------------------------
(* The record validator on every workbook *)

InitParse ==
    /\ workbook \in Workbooks
    /\ pc = "start"
    /\ parsed = NoParse
    /\ students = <<>>
    /\ numMentors = Fin(Scale)
    /\ sorted = <<>>
    /\ result = NoResult
    /\ stats = <<>>
    /\ HeapIdle
    /\ PageIdle

NextParse == ParseStudentsFromFile

SpecParse == InitParse /\ [][NextParse]_vars

----------------------------------------------------------------------------
(* Properties of the record validator *)

Parsed == pc = "parsed"

\* how many times e occurs in the returned error list
ErrorCount(e) == Cardinality({j \in 1..Len(parsed.errors) : parsed.errors[j] = e})

HasError(e) == ErrorCount(e) > 0

\* C10: for a non-empty sequence of rows the validator returns one Student
\* per row, in row order, whatever errors it emitted; it emits one
\* "Missing required column" error per required column that is no key of
\* the first row, and still validates every row after header errors.
C10_RowCountInvariant ==
    Parsed /\ workbook.SheetNames # <<>> /\ Len(workbook.rows) > 0 =>
        /\ Len(parsed.students) = Len(workbook.rows)
        /\ \A j \in 1..Len(workbook.rows) :
              /\ parsed.students[j].studentId
                    = Trim(String(Get(workbook.rows[j], "STUDENTID")))
              /\ parsed.students[j].name
                    = Trim(String(Get(workbook.rows[j], "NAME")))
        /\ \A h \in RequiredSet :
              ErrorCount("Missing required column: " \o h)
                  = IF h \in DOMAIN workbook.rows[1] THEN 0 ELSE 1
        /\ \A j \in 1..Len(workbook.rows) :
              /\ "STUDENTID" \notin DOMAIN workbook.rows[j]
                    => HasError("Row " \o ToString(j + 1) \o ": STUDENTID must be 8 digits")
              /\ "CWA" \notin DOMAIN workbook.rows[j]
                    => HasError("Row " \o ToString(j + 1)
                                    \o ": CWA must be a number between 0 and 100")
              /\ \A e \in {RowErrors(workbook.rows[j], j - 1)[x] :
                              x \in 1..Len(RowErrors(workbook.rows[j], j - 1))} :
                    HasError(e)

\* two rows under a header without CWA: both header and row errors, and
\* both rows retained
C10_Witness ==
    /\ Parsed
    /\ Len(workbook.rows) = 2
    /\ DOMAIN workbook.rows[1] = {"STUDENTID", "INDEXNO", "NAME"}
    /\ HasError("Missing required column: CWA")
    /\ HasError("Row 3: CWA must be a number between 0 and 100")
    /\ HasError("Row 2: STUDENTID must be 8 digits")
    /\ Len(parsed.students) = 2
    /\ parsed.students[2].cwa = NaN

\* the rules of the four fields, on the cell of row r
DigitChars == {"0", "1", "2", "3", "4", "5", "6", "7", "8", "9"}

ExactlyDigits(s, len) ==
    /\ Len(s) = len
    /\ \A x \in 1..len : SubSeq(s, x, x) \in DigitChars

FieldViolates(r, h) ==
    LET txt == Trim(String(Get(r, h)))
        num == ParseFloat(String(Get(r, h)))
    IN  IF h = "STUDENTID" THEN ~ExactlyDigits(txt, 8)
        ELSE IF h = "INDEXNO" THEN ~ExactlyDigits(txt, 7)
        ELSE IF h = "NAME" THEN Len(txt) = 0
        ELSE ~(num.k = "fin" /\ 0 <= num.num /\ num.num <= 100 * num.den)

FieldMessage(h) ==
    IF h = "STUDENTID" THEN "STUDENTID must be 8 digits"
    ELSE IF h = "INDEXNO" THEN "INDEXNO must be 7 digits"
    ELSE IF h = "NAME" THEN "NAME is required"
    ELSE "CWA must be a number between 0 and 100"

\* the error of field h for the row at 1-based position j (0-based j - 1)
RowError(j, h) == "Row " \o ToString((j - 1) + 2) \o ": " \o FieldMessage(h)

\* C11: every row-level error of the row at 0-based position i carries row
\* number i + 2, and the error of a field is emitted (once) exactly when the
\* field violates its rule.
C11_RowErrors ==
    Parsed /\ workbook.SheetNames # <<>> /\ Len(workbook.rows) > 0 =>
        /\ \A j \in 1..Len(workbook.rows) : \A h \in RequiredSet :
              ErrorCount(RowError(j, h))
                  = IF FieldViolates(workbook.rows[j], h) THEN 1 ELSE 0
        /\ \A x \in 1..Len(parsed.errors) :
              \/ \E h \in RequiredSet :
                    parsed.errors[x] = "Missing required column: " \o h
              \/ \E j \in 1..Len(workbook.rows) : \E h \in RequiredSet :
                    parsed.errors[x] = RowError(j, h)

\* a valid first row and a second row (0-based position 1) whose STUDENTID
\* has 7 digits and whose CWA, 100.004, is out of range though it is stored
\* as 100: its errors are reported as "Row 3"
C11_Witness ==
    /\ Parsed
    /\ Len(workbook.rows) = 2
    /\ DOMAIN workbook.rows[1] = RequiredSet
    /\ \A h \in RequiredSet : ~FieldViolates(workbook.rows[1], h)
    /\ workbook.rows[2]["STUDENTID"] = Text("1234567")
    /\ workbook.rows[2]["CWA"] = Text("100.004")
    /\ parsed.students[2].cwa = Fin(100 * Scale)
    /\ parsed.errors = <<"Row 3: STUDENTID must be 8 digits",
                         "Row 3: INDEXNO must be 7 digits",
                         "Row 3: NAME is required",
                         "Row 3: CWA must be a number between 0 and 100">>

\* C12: a workbook without a sheet gives no student and the single error
\* "No sheets found in file"; a sheet without rows gives no student and the
\* single error "Sheet is empty"; no header or row error is emitted.
C12_StructuralErrors ==
    Parsed =>
        /\ workbook.SheetNames = <<>> =>
              parsed = [students |-> <<>>, errors |-> <<"No sheets found in file">>]
        /\ workbook.SheetNames # <<>> /\ Len(workbook.rows) = 0 =>
              parsed = [students |-> <<>>, errors |-> <<"Sheet is empty">>]

\* the workbook without a sheet has been parsed
C12_Witness ==
    /\ Parsed
    /\ workbook.SheetNames = <<>>
    /\ parsed.students = <<>>
    /\ parsed.errors = <<"No sheets found in file">>

----------------------------------------------------------------------------
(* Repeated calls on one roster array *)

\* rosters of the aliasing specification: unsorted and with dropped students
HeapCwaValues == {NaN, Fin(5000), Fin(9000)}

InitCalls ==
    /\ students \in {MkStudents(c) :
                        c \in UNION {[1..len -> HeapCwaValues] : len \in 0..MaxStudents}}
    /\ heap = <<students>>
    /\ calls = <<>>
    /\ numMentors = Fin(Scale)
    /\ pc = "start"
    /\ sorted = <<>>
    /\ result = NoResult
    /\ stats = <<>>
    /\ workbook = NoWorkbook
    /\ parsed = NoParse
    /\ PageIdle

NextCalls ==
    \/ CallAssign
    \/ CallStats

SpecCalls == InitCalls /\ [][NextCalls]_vars

\* the array references of the buckets of call k
RefsOf(k) == {calls[k].assignments[j].students : j \in 1..Len(calls[k].assignments)}

\* C13: after any calls the roster array holds what it held before them
\* (same length, order and field values), every bucket of every result is
\* an array of its own, distinct from the roster array and from every other
\* bucket of this and of any other call, and still holds what was returned.
C13_InputsUnchanged ==
    /\ heap[1] = students
    /\ \A k \in 1..Len(calls) :
          /\ 1 \notin RefsOf(k)
          /\ Cardinality(RefsOf(k)) = Len(calls[k].assignments)
          /\ \A j \in 1..Len(calls[k].assignments) :
                heap[calls[k].assignments[j].students] = calls[k].returned[j]
          /\ \A l \in 1..Len(calls) : l # k => RefsOf(k) \cap RefsOf(l) = {}

\* two calls and a getMentorStats call on a roster that is neither sorted
\* nor free of non-finite scores
C13_Witness ==
    /\ Len(calls) = 2
    /\ stats # <<>>
    /\ [j \in 1..Len(students) |-> students[j].cwa] = <<Fin(5000), NaN, Fin(9000)>>
    /\ heap[1] = students
    /\ calls[1].returned = <<<<[studentId |-> 3, cwa |-> Fin(9000)],
                               [studentId |-> 1, cwa |-> Fin(5000)]>>>>
    /\ calls[2].returned = <<<<[studentId |-> 3, cwa |-> Fin(9000)]>>,
                             <<[studentId |-> 1, cwa |-> Fin(5000)]>>>>

----------------------------------------------------------------------------
(* Rank balance and order inside the buckets (specification Spec) *)

\* the 0-based rank of a placed student in the sorted sequence
RankOf(s) == (CHOOSE k \in 1..Len(sorted) : sorted[k].studentId = s.studentId) - 1

RECURSIVE RankSum(_)
RankSum(sts) == IF sts = <<>> THEN 0
                ELSE RankOf(sts[Len(sts)]) + RankSum(SubSeq(sts, 1, Len(sts) - 1))

\* C16: with at least 2 * numMentors placed students mentor 0 gets the
\* top-ranked student of sweep 1 (rank 0) and the bottom-ranked student of
\* sweep 2 (rank 2n - 1); when the number of placed students is a multiple
\* of 2 * numMentors every bucket has the same sum of ranks.
C16_RankBalance ==
    Returned =>
        /\ Total >= 2 * N =>
              /\ RankOf(Bucket(0)[1]) = 0
              /\ RankOf(Bucket(0)[2]) = 2 * N - 1
        /\ Total % (2 * N) = 0 =>
              \A a, b \in 0..(N - 1) : RankSum(Bucket(a)) = RankSum(Bucket(b))

\* two full sweeps over two mentors: ranks 0 + 3 and 1 + 2
C16_Witness ==
    /\ pc = "returned"
    /\ N = 2
    /\ Total = 4
    /\ RankSum(Bucket(0)) = 3
    /\ RankSum(Bucket(1)) = 3
    /\ RankOf(Bucket(0)[2]) = 3

\* C17: in every bucket the students are in the order they were assigned and
\* their cwa never increases, so the first has the highest and the last the
\* lowest cwa of the bucket; a student placed in sweep p has a cwa at least
\* that of any student placed in sweep p + 1.
C17_BucketOrder ==
    Returned =>
        /\ \A b \in 0..(N - 1) : \A x, y \in 1..Len(Bucket(b)) :
              x < y => /\ RankOf(Bucket(b)[x]) < RankOf(Bucket(b)[y])
                       /\ Bucket(b)[x].cwa.n >= Bucket(b)[y].cwa.n
        /\ \A b \in 0..(N - 1) :
              Bucket(b) # <<>> =>
                 /\ Bucket(b)[1].cwa = MathMax(Bucket(b))
                 /\ Bucket(b)[Len(Bucket(b))].cwa = MathMin(Bucket(b))
        /\ \A b, c \in 0..(N - 1) : \A p \in 1..Len(Bucket(b)) :
              Len(Bucket(c)) >= p + 1
                  => Bucket(b)[p].cwa.n >= Bucket(c)[p + 1].cwa.n

\* a roster given in ascending order, two mentors: 90 and -20 go to mentor
\* 0, 50.01 and 50 to mentor 1
C17_Witness ==
    /\ pc = "returned"
    /\ N = 2
    /\ [j \in 1..Len(students) |-> students[j].cwa]
           = <<Fin(-2000), Fin(5000), Fin(5001), Fin(9000)>>
    /\ [j \in 1..2 |-> Bucket(0)[j].cwa] = <<Fin(9000), Fin(-2000)>>
    /\ [j \in 1..2 |-> Bucket(1)[j].cwa] = <<Fin(5001), Fin(5000)>>

----------------------------------------------------------------------------
(* The page on every sequence of UI events *)

\* a JS number that is a positive integer
IsPositiveInteger(x) == IsInteger(x) /\ x.n > 0

\* 1 <= x <= len on JS numbers
InRosterRange(x, len) == IsFinite(x) /\ Scale <= x.n /\ x.n <= len * Scale

\* C14 as stated: whenever the roster is non-empty, the numMentors that Run
\* passes to the engine is a positive integer with
\* 1 <= numMentors <= roster size.
C14_RunPassesPositiveInteger ==
    [][Run => (Len(students) > 0 =>
                  /\ IsPositiveInteger(numMentors)
                  /\ InRosterRange(numMentors, Len(students)))]_vars

\* C14, amended: whenever the roster is non-empty, the numMentors that Run
\* passes to the engine is a finite number with 1 <= numMentors <= roster
\* size; it is an integer unless a fraction was typed into the mentor-count
\* input, which is bounded but not rounded, and then the engine throws and
\* run() leaves the result and the step as they were.
C14_RunPassesBoundedNumber ==
    [][Run => /\ Len(students) > 0 => InRosterRange(numMentors, Len(students))
              /\ ~IsInteger(numMentors) => /\ pc' = "alert"
                                           /\ UNCHANGED <<result, step>>]_vars

\* Run was pressed with 1.5 mentors for a roster of at least two students
\* and the engine threw.
C14_Witness ==
    /\ pc = "alert"
    /\ numMentors = Fin(Scale + Scale \div 2)
    /\ Len(students) >= 2

\* 0 <= x <= 100 on JS numbers
InRange(x) == IsFinite(x) /\ 0 <= x.n /\ x.n <= 100 * Scale

\* the demo table is on screen
DemoTableShown == pc # "start" /\ mode = "demo" /\ step = "setup"

\* what an edit of the row `index` to `value` does to the roster: the cwa
\* written is in [0, 100] (a number of hundredths, so at most two decimals),
\* 150 gives 100, -20 gives 0, a non-finite entry gives 0, and nothing but
\* the edited student's cwa changes
EditClamps(index, value) ==
    /\ InRange(students'[index + 1].cwa)
    /\ value = Ratio("fin", 150, 1) => students'[index + 1].cwa = Fin(100 * Scale)
    /\ value = Ratio("fin", -20, 1) => students'[index + 1].cwa = Fin(0)
    /\ value.k # "fin" => students'[index + 1].cwa = Fin(0)
    /\ students' = [students EXCEPT ![index + 1].cwa = students'[index + 1].cwa]
    /\ UNCHANGED <<numMentors, result, pageVars>>

\* C15 as stated: every cwa edit in the demo table stores a clamped value
\* (in [0, 100], at most two decimals; 150 -> 100, -20 -> 0, non-finite -> 0)
\* and changes only the edited student's cwa, so every cwa of the roster
\* shown in the demo table is in [0, 100].
C15_DemoCwaClamped ==
    [][/\ \A index \in 0..(DemoSize - 1), value \in EnteredCwa :
             EditCwa(index, value) => EditClamps(index, value)
       /\ DemoTableShown' =>
             \A j \in 1..Len(students') : InRange(students'[j].cwa)]_vars

\* the students of all buckets, bucket after bucket
RECURSIVE Flatten(_)
Flatten(asg) == IF asg = <<>> THEN <<>>
                ELSE Flatten(SubSeq(asg, 1, Len(asg) - 1)) \o asg[Len(asg)].students

\* how often the student record s occurs in the sequence sts
Occurrences(sts, s) == Cardinality({j \in 1..Len(sts) : sts[j] = s})

\* the buckets hold exactly the finite-cwa students of the roster, each as
\* often as the roster holds it
HoldsExactlyFinite(asg, sts) ==
    \A s \in {sts[j] : j \in 1..Len(sts)}
                \cup {Flatten(asg)[j] : j \in 1..Len(Flatten(asg))} :
        Occurrences(Flatten(asg), s) = Occurrences(FilterFinite(sts), s)

\* C18 as stated: in the results step the held result is non-null and is
\* the allocation of the held roster with the held mentor count: exactly
\* numMentors buckets, holding exactly the finite-cwa students of the roster.
C18_ResultOfCurrentCount ==
    step = "results" =>
        /\ result # NoResult
        /\ IsPositiveInteger(numMentors)
        /\ Len(result.assignments) = MentorCount(numMentors)
        /\ HoldsExactlyFinite(result.assignments, students)
        /\ result = Allocate(students, numMentors).result

\* C18, amended: in the results step the held result is non-null and is the
\* allocation of the held roster with the mentor count that Run passed, which
\* is the number of buckets of the result; the buckets hold exactly the
\* finite-cwa students of the roster. The mentor count held by the page can
\* have been edited since and need not be that number.
C18_ResultOfCountAtRun ==
    step = "results" =>
        /\ result # NoResult
        /\ Len(result.assignments) >= 1
        /\ HoldsExactlyFinite(result.assignments, students)
        /\ result = Allocate(students, Fin(Len(result.assignments) * Scale)).result

\* the results step over an uploaded roster that holds a non-finite cwa,
\* after the mentor count was edited away from the number of buckets
C18_Witness ==
    /\ step = "results"
    /\ numMentors # Fin(Len(result.assignments) * Scale)
    /\ \E j \in 1..Len(students) : ~IsFinite(students[j].cwa)

\* C19 as stated: the page is in the preview step only while the mode is
\* upload, and a parse that settles while the mode is demo changes neither
\* the roster nor the step.
C19_StaleParseIgnored ==
    [][/\ step' = "preview" => mode' = "upload"
       /\ \A file \in PageFiles :
             (mode = "demo" /\ ParseSettled(file)) => UNCHANGED <<students, step>>]_vars

====
